---------------------------- MODULE Spec2Model ----------------------------
(***************************************************************************)
(* Model of the TDS relay (src/tds_relay.py, src/lib/relayftp.py,          *)
(* src/lib/relaysftp.py, src/lib/relay_transmission_error.py).             *)
(*                                                                         *)
(* File names are sequences of one-character strings, so that the name     *)
(* arithmetic of incremental_file_name is computed the way the code        *)
(* computes it (regular expression search, integer parse, integer print,   *)
(* posixpath basename/dirname/join, PurePosixPath stem/suffix).            *)
(***************************************************************************)
EXTENDS Integers, Sequences, FiniteSets, TLC

(***************************************************************************)
(* Bounds of the model.                                                    *)
(***************************************************************************)
MaxBaseLen == 4         \* longest base name fed to incremental_file_name
MaxCalls == 3           \* longest chain of repeated applications
MaxWrites == 1          \* entries the other writer adds during one ftp_upload
NumInstances == 2       \* instances of the utility that are launched

(***************************************************************************)
(* Characters and strings.                                                 *)
(***************************************************************************)
None == "None"

Digits == {"0", "1", "2", "3", "4", "5", "6", "7", "8", "9"}

DigitChars == <<"0", "1", "2", "3", "4", "5", "6", "7", "8", "9">>

\* the decimal value of one digit character
DigitVal(c) == (CHOOSE i \in 1..10 : DigitChars[i] = c) - 1

\* int(s) for a non-empty string of decimal digits
RECURSIVE ParseInt(_)
ParseInt(s) ==
    IF Len(s) = 0 THEN 0
    ELSE 10 * ParseInt(SubSeq(s, 1, Len(s) - 1)) + DigitVal(s[Len(s)])

\* str(n) for a natural number
RECURSIVE IntToStr(_)
IntToStr(n) ==
    IF n < 10 THEN <<DigitChars[n + 1]>>
    ELSE IntToStr(n \div 10) \o <<DigitChars[(n % 10) + 1]>>

\* s.rfind(c), 1-based, 0 when c does not occur
RFind(s, c) ==
    IF \E i \in 1..Len(s) : s[i] = c
    THEN CHOOSE i \in 1..Len(s) : s[i] = c /\ \A j \in (i + 1)..Len(s) : s[j] # c
    ELSE 0

\* s.rstrip("/")
RECURSIVE RStripSlash(_)
RStripSlash(s) ==
    IF Len(s) > 0 /\ s[Len(s)] = "/" THEN RStripSlash(SubSeq(s, 1, Len(s) - 1))
    ELSE s

\* posixpath.basename
basename(p) == SubSeq(p, RFind(p, "/") + 1, Len(p))

\* posixpath.dirname
dirname(p) ==
    LET head == SubSeq(p, 1, RFind(p, "/"))
    IN  IF Len(head) > 0 /\ \E i \in 1..Len(head) : head[i] # "/"
        THEN RStripSlash(head)
        ELSE head

\* posixpath.join of two components
join(a, b) ==
    IF Len(b) > 0 /\ b[1] = "/" THEN b
    ELSE IF Len(a) = 0 \/ a[Len(a)] = "/" THEN a \o b
    ELSE a \o <<"/">> \o b

\* PurePosixPath(p).suffix, for a final component that is neither empty nor "."
suffix(p) ==
    LET name == basename(p)
        i == RFind(name, ".")
    IN  IF 1 < i /\ i < Len(name) THEN SubSeq(name, i, Len(name)) ELSE <<>>

\* PurePosixPath(p).stem, for a final component that is neither empty nor "."
stem(p) ==
    LET name == basename(p)
        i == RFind(name, ".")
    IN  IF 1 < i /\ i < Len(name) THEN SubSeq(name, 1, i - 1) ELSE name

(***************************************************************************)
(* The regular expression of incremental_file_name: a hyphen, one or more  *)
(* digits, a dot, then the rest of the line.                               *)
(***************************************************************************)
\* a match that starts at position i: a hyphen, a maximal run of digits, a dot
MatchAt(s, i) ==
    /\ s[i] = "-"
    /\ \E j \in (i + 1)..(Len(s) - 1) :
          /\ \A k \in (i + 1)..j : s[k] \in Digits
          /\ s[j + 1] = "."

\* re.search: the leftmost position where the pattern matches, 0 for no match
re_search(s) ==
    IF \E i \in 1..Len(s) : MatchAt(s, i)
    THEN CHOOSE i \in 1..Len(s) :
            MatchAt(s, i) /\ \A k \in 1..(i - 1) : ~MatchAt(s, k)
    ELSE 0

\* the position of the dot that ends the digits of the match starting at i
MatchDot(s, i) == CHOOSE j \in (i + 2)..Len(s) :
                     s[j] = "." /\ \A k \in (i + 1)..(j - 1) : s[k] \in Digits

\* m.group(1) and m.group(2) of the match starting at i
group1(s, i) == SubSeq(s, i + 1, MatchDot(s, i) - 1)

group2(s, i) == SubSeq(s, MatchDot(s, i) + 1, Len(s))

\* re.sub of the pattern by repl: the last group runs to the end of the string, so the
\* leftmost match is the only one and everything from it on is replaced
re_sub(repl, s) ==
    LET i == re_search(s)
    IN  IF i = 0 THEN s ELSE SubSeq(s, 1, i - 1) \o repl

\* a variant that returns the name it was given
incremental_file_name_Same(original_fname) == original_fname

(***************************************************************************)
(* incremental_file_name (src/lib/relay_transmission_error.py).            *)
(* The result is a name, or the record of the NameError that the           *)
(* misspelt "orignal_fname" raises when new_name is empty.                 *)
(***************************************************************************)
NameError == <<"!", "N", "a", "m", "e", "E", "r", "r", "o", "r">>

incremental_file_name(original_fname) ==
    LET m == re_search(original_fname)
        bfn == basename(original_fname)
        new_name ==
            IF m # 0
            THEN LET oldnum == group1(original_fname, m)
                     newnum == ParseInt(oldnum) + 1
                 IN  re_sub(<<"-">> \o IntToStr(newnum) \o <<".">>
                                \o group2(original_fname, m), bfn)
            ELSE stem(original_fname) \o <<"-", "1">> \o suffix(original_fname)
    IN  IF new_name # <<>>
        THEN join(dirname(original_fname), new_name)
        ELSE NameError

(***************************************************************************)
(* Finite maps: the local file system maps a path to the content stored    *)
(* there, a remote directory maps an entry name to its content.            *)
(***************************************************************************)
EmptyMap == [x \in {} |-> None]

Put(f, k, v) == [x \in (DOMAIN f) \cup {k} |-> IF x = k THEN v ELSE f[x]]

Del(f, k) == [x \in (DOMAIN f) \ {k} |-> f[x]]

(***************************************************************************)
(* Names of the program.                                                   *)
(***************************************************************************)
\* the suffix of the in-flight upload name
TmpSuffix == <<".", "t", "m", "p">>

\* the file names of the model: a.dat, a-1.dat, a-2.dat
A_DAT == <<"a", ".", "d", "a", "t">>

A1_DAT == <<"a", "-", "1", ".", "d", "a", "t">>

A2_DAT == <<"a", "-", "2", ".", "d", "a", "t">>

\* a local path: directory, sub-location ("" for the directory itself), name
Path(dir, sub, name) == <<dir, sub, name>>

\* os.path.join(os.path.dirname(file), name)
Sibling(file, name) == <<file[1], file[2], name>>

\* the content of the local file that a scan finds at a path
ContentOf(file) == [src |-> "local", dir |-> file[1], name |-> file[3]]

\* the content of a remote entry that did not come from this program's run:
\* one that was there before ("old"), one of the other writer ("writer"),
\* or the piece of a broken transfer ("partial")
Foreign(src, name) == [src |-> src, dir |-> 0, name |-> name]

(***************************************************************************)
(* State.                                                                  *)
(***************************************************************************)
VARIABLES
    fname,      \* the name the next call of incremental_file_name receives
    out,        \* the sequence of names returned so far, oldest first
    first,      \* the name the chain of calls started from
    posix,      \* os.rename replaces an existing target (POSIX) or raises (Windows)
    overwrite,  \* the FTP server's rename replaces an existing target
    local,      \* the local file system: path -> content
    remote,     \* the remote directories: destination -> (name -> content)
    up,         \* the frame of the running ftp_upload call
    aud,        \* what the running ftp_upload call has done so far
    writes,     \* number of entries the other writer has added
    lock,       \* LOCK_FILE: 0 when absent, else the instance that wrote it
    inst,       \* the launched instances of main: position and exit path
    conf,       \* options, directories, configuration files and file attributes
    rs,         \* the TdsRelay object and the locals of run and run_on_subfolder
    conns,      \* the transport objects created so far, oldest first
    ended,      \* directory -> how its run_on_subfolder ended and what it reported
    removed     \* contents of the files that remove_file has unlinked

nameVars == <<fname, out, first>>

envVars == <<posix, overwrite>>

upVars == <<local, remote, up, aud, writes>>

lockVars == <<lock, inst>>

runVars == <<conf, rs, conns, ended, removed>>

vars == <<fname, out, first, posix, overwrite, local, remote, up, aud, writes,
          lock, inst, conf, rs, conns, ended, removed>>

(***************************************************************************)
(* Values of the parts of the state that a specification does not use.     *)
(***************************************************************************)
NameIdle == fname = <<>> /\ first = <<>> /\ out = <<>>

IdleFrame == [pc |-> "idle"]

IdleAudit == [fwd |-> FALSE]

UploadIdle ==
    /\ posix = TRUE
    /\ overwrite = TRUE
    /\ local = EmptyMap
    /\ remote = EmptyMap
    /\ up = IdleFrame
    /\ aud = IdleAudit
    /\ writes = 0

\* no lock file
Absent == 0

LockIdle == lock = Absent /\ inst = <<>>

RunIdle ==
    /\ conf = <<>> /\ rs = [pc |-> "idle"] /\ conns = <<>>
    /\ ended = <<>> /\ removed = {}

(***************************************************************************)
(* Inputs of incremental_file_name: a base name over a small alphabet,     *)
(* alone or below a directory.                                             *)
(***************************************************************************)
Alphabet == {"a", "-", "1", "9", "."}

BaseNames ==
    { s \in UNION { [1..n -> Alphabet] : n \in 1..MaxBaseLen } : s # <<".">> }

DirParts == { <<>>, <<"d", "/">>, <<"d", "-", "1", ".", "x", "/">> }

InputNames == { d \o b : d \in DirParts, b \in BaseNames }

InitName ==
    /\ fname \in InputNames
    /\ first = fname
    /\ out = <<>>
    /\ UploadIdle
    /\ LockIdle
    /\ RunIdle

\* one call of incremental_file_name, on the previous call's output
Resolve ==
    /\ Len(out) < MaxCalls
    /\ fname # NameError
    /\ out' = Append(out, incremental_file_name(fname))
    /\ fname' = incremental_file_name(fname)
    /\ UNCHANGED <<first, envVars, upVars, lockVars, runVars>>

NextName == Resolve

SpecName == InitName /\ [][NextName]_vars

(***************************************************************************)
(* os.rename(src, dst) on the local file system.  It raises when src is    *)
(* missing, and on Windows also when dst exists; on POSIX an existing dst  *)
(* is replaced.                                                            *)
(***************************************************************************)
os_rename_ok(src, dst) ==
    /\ src \in DOMAIN local
    /\ posix \/ dst \notin DOMAIN local

os_rename(src, dst) == Put(Del(local, src), dst, local[src])

(***************************************************************************)
(* The frame of one ftp_upload call: the locals of the method, and pc,     *)
(* the remote operation or local step that comes next.                     *)
(***************************************************************************)
\* None in new_name, which otherwise holds a path
NoPath == <<>>

NewFrame(mode, sect, file) ==
    [pc |-> "start", mode |-> mode, sect |-> sect, file |-> file,
     bfn |-> file[3], tmp |-> file[3] \o TmpSuffix, true_file |-> file[3],
     new_name |-> NoPath, files_on_server |-> {},
     result |-> FALSE, raised |-> FALSE]

NewAudit(before) ==
    [fwd |-> FALSE, back |-> FALSE, stored |-> FALSE, fault |-> FALSE,
     at |-> "none", partial |-> FALSE, before |-> before, had |-> local]

\* an exception inside the try block: the except clause re-raises, the
\* finally clause runs next and its return statement discards the exception
Except(u) == [u EXCEPT !.pc = "finally"]

\* the audit after a remote operation: a failure of the transport is noted,
\* with the step at which it happened
Noted(ok) == [aud EXCEPT !.fault = @ \/ ~ok,
                         !.at = IF ok THEN @ ELSE up.pc]

\* the directory listing of the destination the frame is connected to
Listing == DOMAIN remote[up.sect]

(***************************************************************************)
(* RelayFtp.ftp_upload (src/lib/relayftp.py).  One action per remote       *)
(* operation, with the local statements that follow it.                    *)
(***************************************************************************)
\* lines 56-63 and 70: the names, then the first nlst()
FtpList ==
    /\ up.pc = "start" /\ up.mode = "FTP"
    /\ \E ok \in BOOLEAN :
          /\ up' = IF ~ok THEN Except(up)
                   ELSE [up EXCEPT !.files_on_server = Listing,
                                   !.pc = IF up.tmp \in Listing THEN "deltmp" ELSE "loop"]
          /\ aud' = Noted(ok)
    /\ UNCHANGED <<local, remote>>

\* lines 64-66: delete the leftover temporary entry that the listing showed
FtpDeleteTmp ==
    /\ up.pc = "deltmp" /\ up.mode = "FTP"
    /\ \E ok \in BOOLEAN :
          /\ IF ok /\ up.tmp \in Listing
             THEN /\ remote' = [remote EXCEPT ![up.sect] = Del(@, up.tmp)]
                  /\ up' = [up EXCEPT !.pc = "loop"]
             ELSE /\ up' = Except(up)
                  /\ UNCHANGED remote
          /\ aud' = Noted(ok)
    /\ UNCHANGED local

\* FtpLoop with an "if" in place of the "while": one step along the sequence,
\* no second look at the listing
FtpLoop_Once ==
    /\ up.pc = "loop" /\ up.mode = "FTP"
    /\ up.true_file \in up.files_on_server
    /\ up' = [up EXCEPT !.true_file = incremental_file_name(up.true_file),
                        !.files_on_server = {}]
    /\ UNCHANGED <<local, remote, aud>>

\* lines 72-74: while the name is in the listing, take the next name and list again
FtpLoop ==
    /\ up.pc = "loop" /\ up.mode = "FTP"
    /\ up.true_file \in up.files_on_server
    /\ \E ok \in BOOLEAN :
          /\ up' = IF ok /\ incremental_file_name(up.true_file) # NameError
                   THEN [up EXCEPT !.true_file = incremental_file_name(up.true_file),
                                   !.files_on_server = Listing]
                   ELSE Except(up)
          /\ aud' = Noted(ok)
    /\ UNCHANGED <<local, remote>>

\* lines 76-84: the loop is left; rename the local file to the resolved name
FtpLocalRename ==
    /\ up.pc = "loop" /\ up.mode = "FTP"
    /\ up.true_file \notin up.files_on_server
    /\ IF up.true_file = up.bfn
       THEN /\ up' = [up EXCEPT !.pc = "store"]
            /\ UNCHANGED <<local, aud>>
       ELSE LET new_name == Sibling(up.file, up.true_file)
            IN  IF os_rename_ok(up.file, new_name)
                THEN /\ local' = os_rename(up.file, new_name)
                     /\ up' = [up EXCEPT !.new_name = new_name,
                                         !.bfn = up.true_file,
                                         !.tmp = up.true_file \o TmpSuffix,
                                         !.pc = "store"]
                     /\ aud' = [aud EXCEPT !.fwd = TRUE]
                ELSE /\ up' = [Except(up) EXCEPT !.new_name = new_name]
                     /\ UNCHANGED <<local, aud>>
    /\ UNCHANGED remote

\* FtpStore without the exception of a broken transfer: the call goes on to
\* the server-side rename whether or not the store completed
FtpStore_Unchecked ==
    /\ up.pc = "store" /\ up.mode = "FTP"
    /\ LET realfile == Sibling(up.file, up.bfn)
       IN  IF realfile \notin DOMAIN local
           THEN /\ up' = Except(up)
                /\ UNCHANGED <<remote, aud>>
           ELSE \E ok \in BOOLEAN, partial \in BOOLEAN :
                   /\ remote' = IF ok
                                THEN [remote EXCEPT ![up.sect] =
                                         Put(@, up.tmp, local[realfile])]
                                ELSE IF partial
                                THEN [remote EXCEPT ![up.sect] =
                                         Put(@, up.tmp, Foreign("partial", up.tmp))]
                                ELSE remote
                   /\ up' = [up EXCEPT !.pc = "rename"]
                   /\ aud' = [Noted(ok) EXCEPT !.stored = ok,
                                               !.partial = ~ok /\ partial]
    /\ UNCHANGED local

\* lines 86-87: open the local file and STOR it under the temporary name; a
\* transfer that breaks may leave a partial entry behind
FtpStore ==
    /\ up.pc = "store" /\ up.mode = "FTP"
    /\ LET realfile == Sibling(up.file, up.bfn)
       IN  IF realfile \notin DOMAIN local
           THEN /\ up' = Except(up)
                /\ UNCHANGED <<remote, aud>>
           ELSE \E ok \in BOOLEAN, partial \in BOOLEAN :
                   /\ IF ok
                      THEN /\ remote' = [remote EXCEPT ![up.sect] =
                                            Put(@, up.tmp, local[realfile])]
                           /\ up' = [up EXCEPT !.pc = "rename"]
                      ELSE /\ remote' = IF partial
                                        THEN [remote EXCEPT ![up.sect] =
                                                 Put(@, up.tmp, Foreign("partial", up.tmp))]
                                        ELSE remote
                           /\ up' = Except(up)
                   /\ aud' = [Noted(ok) EXCEPT !.stored = ok,
                                               !.partial = ~ok /\ partial]
    /\ UNCHANGED local

\* lines 88-89: rename the temporary entry to the canonical name on the server;
\* whether RNTO replaces an existing target is the server's choice
FtpRename ==
    /\ up.pc = "rename" /\ up.mode = "FTP"
    /\ \E ok \in BOOLEAN :
          /\ IF ok /\ up.tmp \in Listing /\ (overwrite \/ up.bfn \notin Listing)
             THEN /\ remote' = [remote EXCEPT ![up.sect] =
                                   Put(Del(@, up.tmp), up.bfn, remote[up.sect][up.tmp])]
                  /\ up' = [up EXCEPT !.result = TRUE, !.pc = "finally"]
             ELSE /\ up' = Except(up)
                  /\ UNCHANGED remote
          /\ aud' = Noted(ok)
    /\ UNCHANGED local

\* FtpFinally with the rename back placed after "result = True" instead of in
\* the finally clause: a failed call leaves the file under the resolved name
FtpFinally_OnSuccessOnly ==
    /\ up.pc = "finally" /\ up.mode = "FTP"
    /\ IF up.new_name # NoPath /\ up.result /\ os_rename_ok(up.new_name, up.file)
       THEN /\ local' = os_rename(up.new_name, up.file)
            /\ aud' = [aud EXCEPT !.back = TRUE]
       ELSE UNCHANGED <<local, aud>>
    /\ up' = [up EXCEPT !.pc = "done"]
    /\ UNCHANGED remote

\* lines 93-99: rename the local file back, then return result; an error of
\* the rename leaves the finally clause before its return statement
FtpFinally ==
    /\ up.pc = "finally" /\ up.mode = "FTP"
    /\ IF up.new_name = NoPath
       THEN /\ up' = [up EXCEPT !.pc = "done"]
            /\ UNCHANGED <<local, aud>>
       ELSE IF os_rename_ok(up.new_name, up.file)
            THEN /\ local' = os_rename(up.new_name, up.file)
                 /\ up' = [up EXCEPT !.pc = "done"]
                 /\ aud' = [aud EXCEPT !.back = TRUE]
            ELSE /\ up' = [up EXCEPT !.pc = "done", !.raised = TRUE]
                 /\ UNCHANGED <<local, aud>>
    /\ UNCHANGED remote

RelayFtp_ftp_upload ==
    \/ FtpList \/ FtpDeleteTmp \/ FtpLoop \/ FtpLocalRename
    \/ FtpStore \/ FtpRename \/ FtpFinally

(***************************************************************************)
(* RelaySftp.ftp_upload (src/lib/relaysftp.py).                            *)
(***************************************************************************)
\* lines 70-78: the names, then exists(tmp)
SftpExistsTmp ==
    /\ up.pc = "start" /\ up.mode = "SFTP"
    /\ \E ok \in BOOLEAN :
          /\ up' = IF ~ok THEN Except(up)
                   ELSE [up EXCEPT !.pc = IF up.tmp \in Listing THEN "deltmp" ELSE "loop"]
          /\ aud' = Noted(ok)
    /\ UNCHANGED <<local, remote>>

\* lines 79-80: unlink the leftover temporary entry
SftpUnlinkTmp ==
    /\ up.pc = "deltmp" /\ up.mode = "SFTP"
    /\ \E ok \in BOOLEAN :
          /\ IF ok /\ up.tmp \in Listing
             THEN /\ remote' = [remote EXCEPT ![up.sect] = Del(@, up.tmp)]
                  /\ up' = [up EXCEPT !.pc = "loop"]
             ELSE /\ up' = Except(up)
                  /\ UNCHANGED remote
          /\ aud' = Noted(ok)
    /\ UNCHANGED local

\* lines 83-85: exists(true_file); while it does, take the next name
SftpLoop ==
    /\ up.pc = "loop" /\ up.mode = "SFTP"
    /\ \E ok \in BOOLEAN :
          /\ up' = IF ~ok THEN Except(up)
                   ELSE IF up.true_file \notin Listing THEN [up EXCEPT !.pc = "local"]
                   ELSE IF incremental_file_name(up.true_file) = NameError THEN Except(up)
                   ELSE [up EXCEPT !.true_file = incremental_file_name(up.true_file)]
          /\ aud' = Noted(ok)
    /\ UNCHANGED <<local, remote>>

\* lines 87-94: rename the local file to the resolved name
SftpLocalRename ==
    /\ up.pc = "local" /\ up.mode = "SFTP"
    /\ IF up.true_file = up.bfn
       THEN /\ up' = [up EXCEPT !.pc = "store"]
            /\ UNCHANGED <<local, aud>>
       ELSE LET new_name == Sibling(up.file, up.true_file)
            IN  IF os_rename_ok(up.file, new_name)
                THEN /\ local' = os_rename(up.file, new_name)
                     /\ up' = [up EXCEPT !.new_name = new_name,
                                         !.bfn = up.true_file,
                                         !.tmp = up.true_file \o TmpSuffix,
                                         !.pc = "store"]
                     /\ aud' = [aud EXCEPT !.fwd = TRUE]
                ELSE /\ up' = [Except(up) EXCEPT !.new_name = new_name]
                     /\ UNCHANGED <<local, aud>>
    /\ UNCHANGED remote

\* line 97: put the local file under the temporary name
SftpPut ==
    /\ up.pc = "store" /\ up.mode = "SFTP"
    /\ LET realfile == Sibling(up.file, up.bfn)
       IN  IF realfile \notin DOMAIN local
           THEN /\ up' = Except(up)
                /\ UNCHANGED <<remote, aud>>
           ELSE \E ok \in BOOLEAN, partial \in BOOLEAN :
                   /\ IF ok
                      THEN /\ remote' = [remote EXCEPT ![up.sect] =
                                            Put(@, up.tmp, local[realfile])]
                           /\ up' = [up EXCEPT !.pc = "rename"]
                      ELSE /\ remote' = IF partial
                                        THEN [remote EXCEPT ![up.sect] =
                                                 Put(@, up.tmp, Foreign("partial", up.tmp))]
                                        ELSE remote
                           /\ up' = Except(up)
                   /\ aud' = [Noted(ok) EXCEPT !.stored = ok,
                                               !.partial = ~ok /\ partial]
    /\ UNCHANGED local

\* lines 98-100: rename the temporary entry to the canonical name; the SFTP
\* rename request fails when the target exists
SftpRename ==
    /\ up.pc = "rename" /\ up.mode = "SFTP"
    /\ \E ok \in BOOLEAN :
          /\ IF ok /\ up.tmp \in Listing /\ up.bfn \notin Listing
             THEN /\ remote' = [remote EXCEPT ![up.sect] =
                                   Put(Del(@, up.tmp), up.bfn, remote[up.sect][up.tmp])]
                  /\ up' = [up EXCEPT !.result = TRUE, !.pc = "finally"]
             ELSE /\ up' = Except(up)
                  /\ UNCHANGED remote
          /\ aud' = Noted(ok)
    /\ UNCHANGED local

\* lines 105-111: rename the local file back, then return result
SftpFinally ==
    /\ up.pc = "finally" /\ up.mode = "SFTP"
    /\ IF up.new_name = NoPath
       THEN /\ up' = [up EXCEPT !.pc = "done"]
            /\ UNCHANGED <<local, aud>>
       ELSE IF os_rename_ok(up.new_name, up.file)
            THEN /\ local' = os_rename(up.new_name, up.file)
                 /\ up' = [up EXCEPT !.pc = "done"]
                 /\ aud' = [aud EXCEPT !.back = TRUE]
            ELSE /\ up' = [up EXCEPT !.pc = "done", !.raised = TRUE]
                 /\ UNCHANGED <<local, aud>>
    /\ UNCHANGED remote

RelaySftp_ftp_upload ==
    \/ SftpExistsTmp \/ SftpUnlinkTmp \/ SftpLoop \/ SftpLocalRename
    \/ SftpPut \/ SftpRename \/ SftpFinally

(***************************************************************************)
(* One ftp_upload call on a destination that another writer shares.        *)
(***************************************************************************)
\* the names of the local files of the staging directory
LocalNames == { A_DAT, A1_DAT }

\* the entries a remote directory may hold before the call
RemoteNames ==
    { A_DAT, A1_DAT,
      A_DAT \o TmpSuffix, A1_DAT \o TmpSuffix }

\* the entries the other writer may add during the call
WriterNames ==
    { A_DAT, A1_DAT, A2_DAT }

InitUpload ==
    /\ NameIdle
    /\ posix \in BOOLEAN
    /\ overwrite \in BOOLEAN
    /\ \E present \in SUBSET LocalNames :
          local = [p \in { Path(1, "", n) : n \in present } |-> ContentOf(p)]
    /\ \E entries \in SUBSET RemoteNames :
          remote = [s \in {1} |-> [n \in entries |-> Foreign("old", n)]]
    /\ \E mode \in {"FTP", "SFTP"}, n \in LocalNames :
          /\ Path(1, "", n) \in DOMAIN local
          /\ up = NewFrame(mode, 1, Path(1, "", n))
    /\ aud = NewAudit(remote[1])
    /\ writes = 0
    /\ LockIdle
    /\ RunIdle

\* another writer adds an entry under an unused name while the call runs
Writer ==
    /\ up.pc \notin {"idle", "done"}
    /\ writes < MaxWrites
    /\ \E n \in WriterNames \ Listing :
          remote' = [remote EXCEPT ![up.sect] = Put(@, n, Foreign("writer", n))]
    /\ writes' = writes + 1
    /\ UNCHANGED <<local, up, aud>>

NextUpload ==
    \/ (RelayFtp_ftp_upload /\ UNCHANGED <<nameVars, envVars, writes, lockVars, runVars>>)
    \/ (RelaySftp_ftp_upload /\ UNCHANGED <<nameVars, envVars, writes, lockVars, runVars>>)
    \/ (Writer /\ UNCHANGED <<nameVars, envVars, lockVars, runVars>>)

SpecUpload == InitUpload /\ [][NextUpload]_vars

(***************************************************************************)
(* Properties of ftp_upload, checked under SpecUpload.                     *)
(***************************************************************************)
\* the call has returned, or an exception has left it
Returned == up.pc = "done"

\* C1: ftp_upload never raises: whatever fails during the temporary-entry
\* deletion, the existence queries, the local rename, the store or the
\* server-side rename, the call returns false and no exception reaches the
\* caller; it returns true only if the store and the rename both succeeded.
C1_NeverRaises ==
    Returned =>
        /\ ~up.raised
        /\ up.result => (aud.stored /\ up.bfn \in Listing)

\* C2: the upload never overwrites, replaces or removes an entry that the
\* other writer created in the same remote directory.
C2_NoClobber ==
    [][\A n \in DOMAIN remote[1] :
          remote[1][n].src = "writer" =>
             (n \in DOMAIN remote'[1] /\ remote'[1][n] = remote[1][n])]_vars

RECURSIVE FirstFree(_, _)
FirstFree(name, taken) ==
    IF name \notin taken THEN name
    ELSE FirstFree(incremental_file_name(name), taken)

\* the call succeeded on a namespace that nobody else changed
StaticSuccess == Returned /\ up.result /\ writes = 0

\* C9 as stated: with an unchanging namespace the resolved name is the first
\* unused name of the sequence and after a success the namespace is the
\* previous one plus exactly the resolved name.
C9_PlusExactlyResolved ==
    StaticSuccess =>
        LET resolved == FirstFree(up.file[3], DOMAIN aud.before)
        IN  /\ up.bfn = resolved
            /\ remote[1] = Put(aud.before, resolved, ContentOf(up.file))

\* C9 amended: with an unchanging namespace the resolved name is the first
\* unused name of the sequence; after a success the namespace is the previous
\* one without the temporary entries of the base name and of the resolved
\* name, plus the resolved name holding the file; every other entry is kept.
C9_Resolved ==
    StaticSuccess =>
        LET base == up.file[3]
            resolved == FirstFree(base, DOMAIN aud.before)
            kept == Del(Del(aud.before, base \o TmpSuffix), resolved \o TmpSuffix)
        IN  /\ up.bfn = resolved
            /\ remote[1] = Put(kept, resolved, ContentOf(up.file))

\* C9 witness: a.dat uploaded next to a.dat and a-1.dat went to a-2.dat, and a
\* leftover temporary entry was deleted on the way
C9_Witness ==
    /\ StaticSuccess
    /\ up.file[3] = A_DAT
    /\ up.bfn = A2_DAT
    /\ (A_DAT \o TmpSuffix) \in DOMAIN aud.before

(***************************************************************************)
(* Properties of incremental_file_name, checked under SpecName.            *)
(***************************************************************************)
\* the name that the contract gives: base names are split at the final path
\* separator, stem and extension at the final dot
ContractNext(name) ==
    LET cut == RFind(name, "/")
        dir == SubSeq(name, 1, cut)
        base == SubSeq(name, cut + 1, Len(name))
        dot == RFind(base, ".")
        numbered ==
            /\ dot > 2
            /\ \E i \in 1..(dot - 2) :
                  base[i] = "-" /\ \A k \in (i + 1)..(dot - 1) : base[k] \in Digits
        hyphen == CHOOSE i \in 1..(dot - 2) :
                     base[i] = "-" /\ \A k \in (i + 1)..(dot - 1) : base[k] \in Digits
    IN  IF numbered
        THEN dir \o SubSeq(base, 1, hyphen)
                 \o IntToStr(ParseInt(SubSeq(base, hyphen + 1, dot - 1)) + 1)
                 \o SubSeq(base, dot, Len(base))
        ELSE dir \o stem(base) \o <<"-", "1">> \o suffix(base)

\* C10: incremental_file_name maps stem-digits.ext to stem-(digits+1).ext and
\* any other name to stem-1.ext, split at the final separator and the final
\* dot, and keeps the directory part.
C10_Contract == Len(out) >= 1 => out[1] = ContractNext(first)

\* the part of the base name before its final dot (the whole base name when
\* it has no dot)
StemOf(name) ==
    LET base == basename(name)
        dot == RFind(base, ".")
    IN  IF dot > 0 THEN SubSeq(base, 1, dot - 1) ELSE base

\* the position of the hyphen that starts the numeric suffix of a stem, 0
\* when the stem has none
SuffixAt(st) ==
    IF \E i \in 1..(Len(st) - 1) :
          st[i] = "-" /\ \A k \in (i + 1)..Len(st) : st[k] \in Digits
    THEN CHOOSE i \in 1..(Len(st) - 1) :
            st[i] = "-" /\ \A k \in (i + 1)..Len(st) : st[k] \in Digits
    ELSE 0

\* the number of the numeric suffix, 0 without one
NumOf(name) ==
    LET st == StemOf(name)
    IN  IF SuffixAt(st) = 0 THEN 0
        ELSE ParseInt(SubSeq(st, SuffixAt(st) + 1, Len(st)))

\* the stem without its numeric suffix
RootOf(name) ==
    LET st == StemOf(name)
    IN  IF SuffixAt(st) = 0 THEN st ELSE SubSeq(st, 1, SuffixAt(st) - 1)

\* C11: applied again and again, each time to its previous output,
\* incremental_file_name raises the numeric suffix by one per application and
\* never appends a second suffix: every output has the root of its input
\* and a number one higher.
C11_CountsUp ==
    \A k \in 1..Len(out) :
       LET prev == IF k = 1 THEN first ELSE out[k - 1]
       IN  /\ out[k] # NameError
           /\ NumOf(out[k]) = NumOf(prev) + 1
           /\ RootOf(out[k]) = RootOf(prev)

(***************************************************************************)
(* The single-instance guard of main (src/tds_relay.py): each instance is  *)
(* a process of its own, so the steps of different instances interleave.   *)
(***************************************************************************)
Instances == 1..NumInstances

\* an instance that has not been launched yet
NewInstance == [pc |-> "off", path |-> "none", ran |-> FALSE, passed |-> FALSE]

InitLock ==
    /\ NameIdle
    /\ UploadIdle
    /\ RunIdle
    /\ lock = Absent
    /\ inst = [i \in Instances |-> NewInstance]

\* lines 543-551: the instance is launched and sets up its log
Launch(i) ==
    /\ inst[i].pc = "off"
    /\ inst' = [inst EXCEPT ![i].pc = "check"]
    /\ UNCHANGED lock

\* a variant with the call of get_lock_or_exit inside the try statement of
\* main: the exit of a refused instance goes through the finally clause
GetLockOrExit_Check_InTry(i) ==
    /\ inst[i].pc = "check"
    /\ inst' = [inst EXCEPT ![i].pc = IF lock # Absent THEN "finally" ELSE "create"]
    /\ UNCHANGED lock

\* get_lock_or_exit, lines 516-519: the lock file is there, sys.exit(0)
\* before the try statement of main is entered
GetLockOrExit_Check(i) ==
    /\ inst[i].pc = "check"
    /\ inst' = [inst EXCEPT ![i].pc = IF lock # Absent THEN "refused" ELSE "create"]
    /\ UNCHANGED lock

\* get_lock_or_exit, lines 521-524: open(LOCK_FILE, 'w') creates the file or
\* truncates the one that is there, and writes this instance's stamp
GetLockOrExit_Create(i) ==
    /\ inst[i].pc = "create"
    /\ lock' = i
    /\ inst' = [inst EXCEPT ![i].pc = "parse", ![i].passed = TRUE]

\* main, line 555: parse_args returns, or argparse ends the process with
\* SystemExit, which no except clause catches and the finally clause sees
ParseArgs(i) ==
    /\ inst[i].pc = "parse"
    /\ \E ok \in BOOLEAN :
          inst' = [inst EXCEPT ![i].pc = IF ok THEN "run" ELSE "finally",
                               ![i].path = IF ok THEN "none" ELSE "argerr"]
    /\ UNCHANGED lock

\* main, lines 561-569: TdsRelay(...).run() returns, or an exception is
\* caught and logged
Run(i) ==
    /\ inst[i].pc = "run"
    /\ \E ok \in BOOLEAN :
          inst' = [inst EXCEPT ![i].pc = "finally",
                               ![i].ran = TRUE,
                               ![i].path = IF ok THEN "normal" ELSE "exception"]
    /\ UNCHANGED lock

\* a variant that releases the lock only after run has returned normally
Finally_NormalOnly(i) ==
    /\ inst[i].pc = "finally"
    /\ inst' = [inst EXCEPT ![i].pc = IF lock # Absent /\ inst[i].path = "normal"
                                      THEN "remove" ELSE "exited"]
    /\ UNCHANGED lock

\* main, line 572, and release_lock, line 533: the finally clause calls
\* release_lock, which looks whether the lock file is there
Finally(i) ==
    /\ inst[i].pc = "finally"
    /\ inst' = [inst EXCEPT ![i].pc = IF lock # Absent THEN "remove" ELSE "exited"]
    /\ UNCHANGED lock

\* release_lock, line 535: os.remove; when the file has gone since the look,
\* the error leaves main; then main, lines 573-580: the process ends
release_lock(i) ==
    /\ inst[i].pc = "remove"
    /\ lock' = Absent
    /\ inst' = [inst EXCEPT ![i].pc = "exited"]

NextLock ==
    \E i \in Instances :
       \/ (Launch(i) /\ UNCHANGED <<nameVars, envVars, upVars, runVars>>)
       \/ (GetLockOrExit_Check(i) /\ UNCHANGED <<nameVars, envVars, upVars, runVars>>)
       \/ (GetLockOrExit_Create(i) /\ UNCHANGED <<nameVars, envVars, upVars, runVars>>)
       \/ (ParseArgs(i) /\ UNCHANGED <<nameVars, envVars, upVars, runVars>>)
       \/ (Run(i) /\ UNCHANGED <<nameVars, envVars, upVars, runVars>>)
       \/ (Finally(i) /\ UNCHANGED <<nameVars, envVars, upVars, runVars>>)
       \/ (release_lock(i) /\ UNCHANGED <<nameVars, envVars, upVars, runVars>>)

SpecLock == InitLock /\ [][NextLock]_vars

(***************************************************************************)
(* Properties of the guard, checked under SpecLock.                        *)
(***************************************************************************)
\* the instance is between the creation of its lock file and its release
Holding(i) == inst[i].pc \in {"parse", "run", "finally", "remove"}

\* C6: at most one instance proceeds at a time: whatever the interleaving of
\* the existence checks and the creations, no two instances are past the
\* guard together, and an instance that was refused has processed nothing.
C6_OneAtATime ==
    /\ \A i, j \in Instances : (Holding(i) /\ Holding(j)) => i = j
    /\ \A i \in Instances : inst[i].pc = "refused" => ~inst[i].ran

\* C7: after main has terminated, on the normal path, after an exception and
\* after the exit of a failed argument parse, the lock file that this
\* instance created is absent.
C7_Released ==
    \A i \in Instances : inst[i].pc = "exited" => lock # i

\* C7 witness: an instance has ended through an error path after it had
\* created the lock file, and the file is gone
C7_Witness ==
    \E i \in Instances :
       /\ inst[i].pc = "exited"
       /\ inst[i].path \in {"argerr", "exception"}
       /\ lock = Absent

\* the instance is past the guard and has not reached the removal of the
\* lock file
Running(i) == inst[i].pc \in {"parse", "run", "finally"}

\* C28: an instance that finds the lock file there exits without touching
\* it: a step changes the lock file only if the instance that takes it has
\* passed get_lock_or_exit, and while no other instance has passed, the lock
\* file of a running instance stays in place, whatever number of instances
\* is refused meanwhile.
C28_RefusedLeavesLock ==
    /\ [](\A i \in Instances :
            (Running(i) /\ \A j \in Instances \ {i} : ~inst[j].passed) => lock = i)
    /\ [][ \A j \in Instances :
              /\ (inst'[j] # inst[j] /\ ~inst'[j].passed) => lock' = lock
              /\ inst[j].pc = "refused" => inst'[j] = inst[j]
         ]_vars

\* C28 witness: an instance is running behind its lock file and another has
\* been refused
C28_Witness ==
    \E i, j \in Instances :
       /\ inst[i].pc = "run" /\ lock = i
       /\ inst[j].pc = "refused" /\ ~inst[j].passed

(***************************************************************************)
(* TdsRelay (src/tds_relay.py): the walk over the staging directories.     *)
(***************************************************************************)
\* transfer_delay, the default of TdsRelay.__init__ and of --delay
TransferDelay == 120

\* the sub-locations of a staging directory
BACKUP_FOLDER_NAME == "transferred"

QUARANTINE == "quarantined"

\* the characters of QUARANTINE, for the test on the names of sub-directories
QUARANTINE_Chars == <<"q", "u", "a", "r", "a", "n", "t", "i", "n", "e", "d">>

\* the characters that line 104 hands to str.strip
StripChars == {"[", "\\", "/", "*", "|", "]", "$"}

\* str.strip(chars): drop the characters of the set from both ends
RECURSIVE strip(_)
strip(x) ==
    IF Len(x) > 0 /\ x[1] \in StripChars THEN strip(Tail(x))
    ELSE IF Len(x) > 0 /\ x[Len(x)] \in StripChars THEN strip(SubSeq(x, 1, Len(x) - 1))
    ELSE x

DatSuffix == <<".", "d", "a", "t">>

\* str.endswith
EndsWith(s, suf) ==
    Len(s) >= Len(suf) /\ SubSeq(s, Len(s) - Len(suf) + 1, Len(s)) = suf

\* the files that lie in the staging directory d itself
StagingOf(d) == { p \in DOMAIN local : p[1] = d /\ p[2] = "" }

\* glob "*.*" and glob "*.dat": a leading dot is never matched by "*"
GlobAny(d) ==
    { p \in StagingOf(d) : p[3][1] # "." /\ \E i \in 1..Len(p[3]) : p[3][i] = "." }

GlobDat(d) == { p \in StagingOf(d) : p[3][1] # "." /\ EndsWith(p[3], DatSuffix) }

\* a variant without the filter on the temporary suffix
forward_list_Unfiltered(d) == IF conf.all_pass THEN GlobAny(d) ELSE GlobDat(d)

\* get_file_list, lines 274-279: the files the loop goes through
forward_list(d) ==
    IF conf.all_pass
    THEN { p \in GlobAny(d) : ~EndsWith(p[3], TmpSuffix) }
    ELSE GlobDat(d)

\* the orders in which glob may return a set of paths
Orders(S) ==
    { o \in [1..Cardinality(S) -> S] :
         \A i, j \in 1..Cardinality(S) : o[i] = o[j] => i = j }

\* read_config_ini, line 343: the customers that a section lists
customers == {"acme"}

\* get_customer_info_from_dat, lines 413-432: the text of the CustomerName
\* node, or the error raised when the node is absent
get_customer_info_from_dat(file) ==
    IF conf.meta[file].cust = "nonode" THEN "TdsRelayUnmetSpecError"
    ELSE conf.meta[file].cust

\* validate_transfer_info, lines 442-453: the loop over the sections compares
\* with the undefined name "customer", which raises NameError
validate_transfer_info(file, d) ==
    IF get_customer_info_from_dat(file) = "TdsRelayUnmetSpecError"
    THEN "TdsRelayUnmetSpecError"
    ELSE IF Len(conf.dirs[d].sections) > 0 THEN "NameError"
    ELSE "True"

\* get_file_list, lines 281-316: the loop over the files from position i on;
\* acc is dat_file_list; an error other than TdsRelayUnmetSpecError ends it
RECURSIVE get_file_list(_, _, _, _)
get_file_list(d, order, i, acc) ==
    IF i > Len(order) THEN [list |-> acc, raised |-> FALSE]
    ELSE LET file == order[i]
         IN  IF conf.meta[file].age < conf.transfer_delay
             THEN get_file_list(d, order, i + 1, acc)
             ELSE IF ~conf.all_pass /\ ~EndsWith(file[3], DatSuffix)
             THEN get_file_list(d, order, i + 1, acc)
             ELSE IF conf.no_validate_customer
             THEN get_file_list(d, order, i + 1, Append(acc, file))
             ELSE IF validate_transfer_info(file, d) = "True"
             THEN get_file_list(d, order, i + 1, Append(acc, file))
             ELSE IF validate_transfer_info(file, d) = "TdsRelayUnmetSpecError"
             THEN get_file_list(d, order, i + 1, acc)
             ELSE [list |-> acc, raised |-> TRUE]

\* shutil.move(file, <sub-location of the directory>): the local file system
\* afterwards; it raises when the name is taken there
move_raises(file, dir, sub) == Path(dir, sub, file[3]) \in DOMAIN local

move(file, dir, sub) == Put(Del(local, file), Path(dir, sub, file[3]), local[file])

\* quarantine_file, lines 383-389
quarantine_raises(file, forward_dir) ==
    file \in DOMAIN local /\ move_raises(file, forward_dir, QUARANTINE)

\* a variant that leaves the file where it is
quarantine_file_Keep(file, forward_dir) == local

quarantine_file(file, forward_dir) ==
    IF file \in DOMAIN local THEN move(file, forward_dir, QUARANTINE) ELSE local

\* diff_of_lists, lines 584-586
diff_of_lists(li1, li2) ==
    LET both == li1 \o li2
        InSeq(e, li) == \E k \in 1..Len(li) : li[k] = e
    IN  SelectSeq(both, LAMBDA e : ~InSeq(e, li1) \/ ~InSeq(e, li2))

\* the locals of run_on_subfolder, lines 134-142
Locals ==
    [cnt_fwd |-> 0, sections_cnt |-> 0, quarantine_cnt |-> 0,
     try_to_send_by_sections |-> EmptyMap, did_sent_by_sections |-> EmptyMap,
     quarantine_files |-> <<>>, shouldPostAction |-> FALSE,
     section_run_count |-> 0, fi |-> 0, exc |-> None]

\* TdsRelay.__init__, lines 72-84, at the start of run
NewRun ==
    [pc |-> "loop", x |-> 1, forward_dir |-> 0, config_file |-> 0,
     dat_file_list |-> <<>>, ftp_conn |-> 0] @@ Locals

\* the record of a directory that run has not visited yet
NotEnded ==
    [how |-> "none", exc |-> None, files |-> <<>>, missing |-> EmptyMap, calls |-> 0]

\* the destination that the for loop over the sections is at
CurrentSect == conf.dirs[rs.forward_dir].sections[rs.section_run_count]

\* a variant that goes through dat_file_list from its end
CurrentFile_Backwards == rs.dat_file_list[Len(rs.dat_file_list) + 1 - rs.fi]

\* the file that the for loop over dat_file_list is at
CurrentFile == rs.dat_file_list[rs.fi]

\* a variant of Run_Loop in which prepare_for_subfolder does not clear
\* dat_file_list
Run_Loop_NoClear ==
    /\ rs.pc = "loop"
    /\ IF rs.x > Len(conf.dirs)
       THEN /\ rs' = [rs EXCEPT !.pc = "end"]
            /\ UNCHANGED ended
       ELSE IF EndsWith(strip(conf.dirs[rs.x].name), QUARANTINE_Chars)
       THEN /\ rs' = [rs EXCEPT !.x = @ + 1]
            /\ ended' = [ended EXCEPT ![rs.x].how = "skipped"]
       ELSE /\ rs' = [rs EXCEPT !.x = @ + 1, !.forward_dir = rs.x,
                                !.config_file = rs.x, !.pc = "subfolder"]
            /\ ended' = [ended EXCEPT ![rs.x].calls = @ + 1]
    /\ UNCHANGED <<conf, conns, removed, local, remote, up, aud>>

\* run, lines 101-118: the next sub-directory; one with the quarantine marker
\* is passed over, any other is prepared (prepare_for_subfolder, lines 124-126)
Run_Loop ==
    /\ rs.pc = "loop"
    /\ IF rs.x > Len(conf.dirs)
       THEN /\ rs' = [rs EXCEPT !.pc = "end"]
            /\ UNCHANGED ended
       ELSE IF EndsWith(strip(conf.dirs[rs.x].name), QUARANTINE_Chars)
       THEN /\ rs' = [rs EXCEPT !.x = @ + 1]
            /\ ended' = [ended EXCEPT ![rs.x].how = "skipped"]
       ELSE /\ rs' = [rs EXCEPT !.x = @ + 1, !.forward_dir = rs.x,
                                !.config_file = rs.x, !.dat_file_list = <<>>,
                                !.pc = "subfolder"]
            /\ ended' = [ended EXCEPT ![rs.x].calls = @ + 1]
    /\ UNCHANGED <<conf, conns, removed, local, remote, up, aud>>

\* a variant that scans the directory without looking for the configuration file
Subfolder_Start_NoConfigCheck ==
    /\ rs.pc = "subfolder"
    /\ LET d == rs.forward_dir
       IN  IF FALSE
           THEN /\ rs' = [k \in DOMAIN rs |->
                             IF k = "pc" THEN "loop"
                             ELSE IF k \in DOMAIN Locals THEN Locals[k] ELSE rs[k]]
                /\ ended' = [ended EXCEPT ![d].how = "noconfig"]
           ELSE \E order \in Orders(forward_list(d)) :
                   LET scan == get_file_list(d, order, 1, rs.dat_file_list)
                       how == IF scan.raised THEN "aborted"
                              ELSE IF scan.list = <<>> THEN "nofiles"
                              ELSE "none"
                   IN  /\ rs' = [k \in DOMAIN rs |->
                                    IF k = "pc"
                                    THEN (IF how = "none" THEN "section" ELSE "loop")
                                    ELSE IF k = "dat_file_list" THEN scan.list
                                    ELSE IF k = "sections_cnt" /\ how = "none"
                                    THEN Len(conf.dirs[d].sections)
                                    ELSE IF k \in DOMAIN Locals THEN Locals[k]
                                    ELSE rs[k]]
                       /\ ended' = [ended EXCEPT
                                       ![d].how = how,
                                       ![d].files = scan.list,
                                       ![d].exc = IF scan.raised THEN "TdsRelayError"
                                                  ELSE None]
    /\ UNCHANGED <<conf, conns, removed, local, remote, up, aud>>

\* run_on_subfolder, lines 134-164: the configuration file, the file list,
\* the sections
Subfolder_Start ==
    /\ rs.pc = "subfolder"
    /\ LET d == rs.forward_dir
       IN  IF ~conf.dirs[d].config
           THEN /\ rs' = [k \in DOMAIN rs |->
                             IF k = "pc" THEN "loop"
                             ELSE IF k \in DOMAIN Locals THEN Locals[k] ELSE rs[k]]
                /\ ended' = [ended EXCEPT ![d].how = "noconfig"]
           ELSE \E order \in Orders(forward_list(d)) :
                   LET scan == get_file_list(d, order, 1, rs.dat_file_list)
                       how == IF scan.raised THEN "aborted"
                              ELSE IF scan.list = <<>> THEN "nofiles"
                              ELSE "none"
                   IN  /\ rs' = [k \in DOMAIN rs |->
                                    IF k = "pc"
                                    THEN (IF how = "none" THEN "section" ELSE "loop")
                                    ELSE IF k = "dat_file_list" THEN scan.list
                                    ELSE IF k = "sections_cnt" /\ how = "none"
                                    THEN Len(conf.dirs[d].sections)
                                    ELSE IF k \in DOMAIN Locals THEN Locals[k]
                                    ELSE rs[k]]
                       /\ ended' = [ended EXCEPT
                                       ![d].how = how,
                                       ![d].files = scan.list,
                                       ![d].exc = IF scan.raised THEN "TdsRelayError"
                                                  ELSE None]
    /\ UNCHANGED <<conf, conns, removed, local, remote, up, aud>>

\* a variant that sets the flag at every section
should_post_action_Always(count, sections) == TRUE

\* the value of shouldPostAction for the section that is about to start
\* (lines 170-172)
should_post_action(count, sections) == rs.shouldPostAction \/ count = Len(sections)

\* ftp_open, relayftp.py:41-43 and relaysftp.py:54-56: what the caller gets
\* when the connection cannot be opened
ftp_open_error(mode) == "RelayTransmissionError"

\* ftp_close, relayftp.py:111-113 and relaysftp.py:123-125: what the caller
\* gets when the connection cannot be closed; the SFTP variant raises a
\* string, which is a TypeError
ftp_close_error(mode) ==
    IF mode = "FTP" THEN "RelayTransmissionError" ELSE "TypeError"

\* a variant that goes on to the files although ftp_open has failed
Section_Start_IgnoreOpenError ==
    /\ rs.pc = "section"
    /\ LET sections == conf.dirs[rs.forward_dir].sections
           count == rs.section_run_count + 1
       IN  IF rs.section_run_count = Len(sections)
           THEN /\ rs' = [rs EXCEPT !.pc = "finally"]
                /\ UNCHANGED conns
           ELSE \E ok \in BOOLEAN :
                   LET sect == sections[count]
                       conn == [dir |-> rs.forward_dir, sect |-> sect, mode |-> conf.mode[sect],
                                state |-> IF ok THEN "open" ELSE "failed"]
                       both == rs.try_to_send_by_sections
                   IN  /\ conns' = Append(conns, conn)
                       /\ rs' = [rs EXCEPT
                             !.section_run_count = count,
                             !.shouldPostAction = should_post_action(count, sections),
                             !.ftp_conn = Len(conns) + 1,
                             !.try_to_send_by_sections =
                                 IF sect \notin DOMAIN @ THEN Put(@, sect, <<>>) ELSE @,
                             !.did_sent_by_sections =
                                 IF sect \notin DOMAIN @ THEN Put(@, sect, <<>>) ELSE @,
                             !.fi = 1,
                             !.exc = None,
                             !.pc = "file"]
    /\ UNCHANGED <<conf, ended, removed, local, remote, up, aud>>

\* run_on_subfolder, lines 167-186: the next section, its transport object
\* and ftp_open; an error of ftp_open leaves both loops
Section_Start ==
    /\ rs.pc = "section"
    /\ LET sections == conf.dirs[rs.forward_dir].sections
           count == rs.section_run_count + 1
       IN  IF rs.section_run_count = Len(sections)
           THEN /\ rs' = [rs EXCEPT !.pc = "finally"]
                /\ UNCHANGED conns
           ELSE \E ok \in BOOLEAN :
                   LET sect == sections[count]
                       conn == [dir |-> rs.forward_dir, sect |-> sect, mode |-> conf.mode[sect],
                                state |-> IF ok THEN "open" ELSE "failed"]
                       both == rs.try_to_send_by_sections
                   IN  /\ conns' = Append(conns, conn)
                       /\ rs' = [rs EXCEPT
                             !.section_run_count = count,
                             !.shouldPostAction = should_post_action(count, sections),
                             !.ftp_conn = Len(conns) + 1,
                             !.try_to_send_by_sections =
                                 IF ok /\ sect \notin DOMAIN @ THEN Put(@, sect, <<>>) ELSE @,
                             !.did_sent_by_sections =
                                 IF ok /\ sect \notin DOMAIN @ THEN Put(@, sect, <<>>) ELSE @,
                             !.fi = 1,
                             !.exc = IF ok THEN None ELSE ftp_open_error(conf.mode[sect]),
                             !.pc = IF ok THEN "file" ELSE "finally"]
    /\ UNCHANGED <<conf, ended, removed, local, remote, up, aud>>

\* run_on_subfolder, lines 189-194: the next file is noted as tried and
\* ftp_upload is called on it
File_Start ==
    /\ rs.pc = "file"
    /\ IF rs.fi > Len(rs.dat_file_list)
       THEN /\ rs' = [rs EXCEPT !.pc = "section"]
            /\ UNCHANGED <<up, aud>>
       ELSE /\ rs' = [rs EXCEPT
                         !.try_to_send_by_sections[CurrentSect] = Append(@, CurrentFile),
                         !.pc = "upload"]
            /\ up' = NewFrame(conf.mode[CurrentSect], CurrentSect, CurrentFile)
            /\ aud' = NewAudit(remote[CurrentSect])
    /\ UNCHANGED <<conf, conns, ended, removed, local, remote>>

\* run_on_subfolder, lines 196-234: what the loop body does with the outcome
\* of ftp_upload.  quarantine_file raises when the name is taken in the
\* quarantine; from the handler of line 228 that error leaves both loops.
File_After ==
    /\ rs.pc = "upload" /\ up.pc = "done"
    /\ LET file == CurrentFile
           sect == CurrentSect
           d == rs.forward_dir
           ok == up.result /\ ~up.raised
           counted == IF ok
                      THEN [rs EXCEPT !.cnt_fwd = @ + 1,
                                      !.did_sent_by_sections[sect] = Append(@, file)]
                      ELSE rs
           quarantined == [counted EXCEPT !.quarantine_cnt = @ + 1,
                                          !.quarantine_files = Append(@, file),
                                          !.fi = @ + 1, !.pc = "file"]
           next == [counted EXCEPT !.fi = @ + 1, !.pc = "file"]
           abort == [counted EXCEPT !.exc = "TdsRelayError", !.pc = "finally"]
       IN  IF ok /\ ~rs.shouldPostAction
           THEN /\ rs' = next
                /\ UNCHANGED <<local, removed>>
           ELSE IF ok /\ conf.backup_when_succeed /\ file \notin DOMAIN local
           THEN /\ rs' = next
                /\ UNCHANGED <<local, removed>>
           ELSE IF ok /\ conf.backup_when_succeed /\ ~move_raises(file, d, BACKUP_FOLDER_NAME)
           THEN /\ rs' = next
                /\ local' = move(file, d, BACKUP_FOLDER_NAME)
                /\ UNCHANGED removed
           ELSE IF ok /\ ~conf.backup_when_succeed
           THEN /\ rs' = next
                /\ local' = IF file \in DOMAIN local THEN Del(local, file) ELSE local
                /\ removed' = IF file \in DOMAIN local
                              THEN removed \cup {local[file]} ELSE removed
           ELSE IF quarantine_raises(file, d)
           THEN /\ rs' = abort
                /\ UNCHANGED <<local, removed>>
           ELSE /\ rs' = quarantined
                /\ local' = quarantine_file(file, d)
                /\ UNCHANGED removed
    /\ up' = IdleFrame
    /\ aud' = IdleAudit
    /\ UNCHANGED <<conf, conns, ended, remote>>

\* the sections whose shortfall the finally clause logs before a section
\* without an entry in try_to_send_by_sections raises KeyError
RECURSIVE Reported(_, _)
Reported(sections, i) ==
    IF i > Len(sections) \/ sections[i] \notin DOMAIN rs.try_to_send_by_sections
    THEN {}
    ELSE {sections[i]} \cup Reported(sections, i + 1)

\* run_on_subfolder, lines 250-269: the finally clause: the shortfall of each
\* section, then ftp_close on the transport object that self.ftp_conn holds
Subfolder_Finally ==
    /\ rs.pc = "finally"
    /\ LET d == rs.forward_dir
           sections == conf.dirs[d].sections
           short == rs.sections_cnt * Len(rs.dat_file_list) # rs.cnt_fwd
           reported == IF short THEN Reported(sections, 1) ELSE {}
           keyerror == short /\ \E i \in 1..Len(sections) : sections[i] \notin reported
           missing == [sect \in reported |->
                          diff_of_lists(rs.try_to_send_by_sections[sect],
                                        rs.did_sent_by_sections[sect])]
           closing == ~keyerror /\ rs.ftp_conn # 0
       IN  \E ok \in BOOLEAN :
              LET exc == IF keyerror THEN "KeyError"
                         ELSE IF closing /\ conns[rs.ftp_conn].state = "open" /\ ~ok
                         THEN ftp_close_error(conns[rs.ftp_conn].mode)
                         ELSE rs.exc
              IN  /\ closing \/ ok
                  /\ conns[rs.ftp_conn].state = "open" \/ ok
                  /\ conns' = IF closing /\ conns[rs.ftp_conn].state = "open"
                              THEN [conns EXCEPT ![rs.ftp_conn].state =
                                       IF ok THEN "closed" ELSE "broken"]
                              ELSE conns
                  /\ ended' = [ended EXCEPT
                                  ![d].how = IF exc = None THEN "normal" ELSE "aborted",
                                  ![d].exc = exc,
                                  ![d].missing = missing]
                  /\ rs' = [rs EXCEPT !.pc = "loop", !.exc = None]
    /\ UNCHANGED <<conf, removed, local, remote, up, aud>>

\* the largest number of sections in a configuration file
MaxSections == 2

\* the sub-directories that run goes through: a staging directory with its
\* configuration file, one that bears the quarantine name, one without a
\* configuration file, and one whose name has a character after the
\* quarantine name
Dirs(sections) ==
    << [name |-> <<"d">>, config |-> TRUE, sections |-> sections],
       [name |-> QUARANTINE_Chars, config |-> FALSE, sections |-> <<>>],
       [name |-> <<"e">>, config |-> FALSE, sections |-> <<>>],
       [name |-> QUARANTINE_Chars \o <<"$">>, config |-> FALSE, sections |-> <<>>] >>

\* a file that waits in the sub-directory without a configuration file
OtherFile == Path(3, "", A_DAT)

\* names left by earlier runs in the sub-locations of the staging directory
StalePaths == { Path(1, BACKUP_FOLDER_NAME, A_DAT), Path(1, QUARANTINE, A_DAT) }

InitRun ==
    /\ NameIdle
    /\ LockIdle
    /\ posix \in BOOLEAN
    /\ overwrite = TRUE
    /\ writes = 0
    /\ up = IdleFrame
    /\ aud = IdleAudit
    /\ \E present \in (SUBSET LocalNames) \ {{}}, stale \in SUBSET StalePaths :
          /\ local = [p \in { Path(1, "", n) : n \in present } \cup stale
                               \cup {OtherFile} |->
                         IF p \in stale THEN Foreign("old", p[3]) ELSE ContentOf(p)]
          /\ \E n \in 1..MaxSections :
             \E mode \in [1..n -> {"FTP", "SFTP"}] :
             \E flags \in [all_pass : BOOLEAN, no_validate_customer : BOOLEAN,
                           backup_when_succeed : BOOLEAN] :
             \E kind \in [{ Path(1, "", f) : f \in present } ->
                            IF flags.no_validate_customer
                            THEN {"ready", "young"}
                            ELSE {"ready", "young", "nonode", "other"}] :
                conf = [all_pass |-> flags.all_pass,
                        no_validate_customer |-> flags.no_validate_customer,
                        backup_when_succeed |-> flags.backup_when_succeed,
                        transfer_delay |-> TransferDelay,
                        dirs |-> Dirs([i \in 1..n |-> i]),
                        mode |-> mode,
                        meta |-> [p \in DOMAIN kind \cup {OtherFile} |->
                                    IF p = OtherFile
                                    THEN [age |-> TransferDelay, cust |-> "acme"]
                                    ELSE [age |-> IF kind[p] = "young"
                                                  THEN TransferDelay - 1
                                                  ELSE TransferDelay,
                                          cust |-> IF kind[p] \in {"nonode", "other"}
                                                   THEN kind[p] ELSE "acme"]]]
          /\ \E taken \in SUBSET {A_DAT} :
                remote = [s \in 1..Len(conf.dirs[1].sections) |->
                             [f \in taken |-> Foreign("old", f)]]
    /\ rs = NewRun
    /\ conns = <<>>
    /\ ended = [d \in 1..Len(conf.dirs) |-> NotEnded]
    /\ removed = {}

\* ftp_upload runs between File_Start and File_After
Upload_Step ==
    /\ rs.pc = "upload"
    /\ (RelayFtp_ftp_upload \/ RelaySftp_ftp_upload)
    /\ UNCHANGED runVars

NextRun ==
    \/ (Run_Loop /\ UNCHANGED <<nameVars, envVars, writes, lockVars>>)
    \/ (Subfolder_Start /\ UNCHANGED <<nameVars, envVars, writes, lockVars>>)
    \/ (Section_Start /\ UNCHANGED <<nameVars, envVars, writes, lockVars>>)
    \/ (File_Start /\ UNCHANGED <<nameVars, envVars, writes, lockVars>>)
    \/ (Upload_Step /\ UNCHANGED <<nameVars, envVars, writes, lockVars>>)
    \/ (File_After /\ UNCHANGED <<nameVars, envVars, writes, lockVars>>)
    \/ (Subfolder_Finally /\ UNCHANGED <<nameVars, envVars, writes, lockVars>>)

SpecRun == InitRun /\ [][NextRun]_vars

(***************************************************************************)
(* Properties of run_on_subfolder, checked under SpecRun.                  *)
(***************************************************************************)
Range(li) == { li[k] : k \in DOMAIN li }

\* where the content c lies
InStaging(c) == \E p \in DOMAIN local : p[2] = "" /\ local[p] = c

Archived(c) == \E p \in DOMAIN local : p[2] = BACKUP_FOLDER_NAME /\ local[p] = c

Quarantined(c) == \E p \in DOMAIN local : p[2] = QUARANTINE /\ local[p] = c

Removed(c) == c \in removed

\* C3: after run_on_subfolder has completed normally for a directory, every
\* file of its candidate list is in exactly one terminal location (archived
\* under "transferred", deleted after its upload, or under "quarantined"),
\* and none is still in the staging directory.
C3_OneTerminalLocation ==
    \A d \in DOMAIN ended :
       ended[d].how = "normal" =>
          \A f \in Range(ended[d].files) :
             /\ ~InStaging(ContentOf(f))
             /\ Cardinality({ k \in {"archived", "removed", "quarantined"} :
                   \/ k = "archived" /\ Archived(ContentOf(f))
                   \/ k = "removed" /\ Removed(ContentOf(f))
                   \/ k = "quarantined" /\ Quarantined(ContentOf(f)) }) = 1

\* the loop body is about to deal with a successful upload
UploadSucceeded == rs.pc = "upload" /\ up.pc = "done" /\ up.result /\ ~up.raised

\* the section that the loop is at is the last one of the directory
AtLastSection == rs.section_run_count = Len(conf.dirs[rs.forward_dir].sections)

\* C4: a file is moved to "transferred" or deleted only in the step that
\* follows a successful upload of that file to the last section; the step
\* that follows a successful upload to an earlier section leaves the file in
\* the staging directory under its name; and after a successful upload to
\* the last section the file is archived (backup_when_succeed, name free in
\* "transferred") or deleted (otherwise), whatever the earlier sections
\* recorded.
C4_PostActionAtLast ==
    [][ /\ \A p \in DOMAIN local' \ DOMAIN local :
              p[2] = BACKUP_FOLDER_NAME =>
                 UploadSucceeded /\ AtLastSection /\ p[3] = up.file[3]
                 /\ conf.backup_when_succeed
        /\ removed' # removed =>
              UploadSucceeded /\ AtLastSection /\ ~conf.backup_when_succeed
              /\ removed' = removed \cup {local[up.file]}
        /\ (UploadSucceeded /\ ~AtLastSection) =>
              up.file \in DOMAIN local' /\ local' = local /\ removed' = removed
        /\ (UploadSucceeded /\ AtLastSection /\ up.file \in DOMAIN local) =>
              IF conf.backup_when_succeed
              THEN move_raises(up.file, rs.forward_dir, BACKUP_FOLDER_NAME)
                   \/ ( /\ up.file \notin DOMAIN local'
                        /\ Path(rs.forward_dir, BACKUP_FOLDER_NAME, up.file[3])
                              \in DOMAIN local'
                        /\ local'[Path(rs.forward_dir, BACKUP_FOLDER_NAME, up.file[3])]
                              = local[up.file] )
              ELSE up.file \notin DOMAIN local' /\ local[up.file] \in removed'
      ]_vars

\* a file was archived after its upload to the last of two sections while
\* the first section has a failed upload of another file on record
C4_Witness ==
    /\ rs.sections_cnt = 2
    /\ DOMAIN rs.did_sent_by_sections = {1, 2}
    /\ \E f \in Range(rs.did_sent_by_sections[2]) :
          /\ Path(1, BACKUP_FOLDER_NAME, f[3]) \in DOMAIN local
          /\ local[Path(1, BACKUP_FOLDER_NAME, f[3])] = ContentOf(f)
          /\ f \notin DOMAIN local
    /\ \E g \in Range(rs.try_to_send_by_sections[1]) :
          g \notin Range(rs.did_sent_by_sections[1])

\* the file whose upload has just ended failed at an earlier section
FailedEarlier ==
    \E s \in DOMAIN rs.try_to_send_by_sections :
       /\ s < CurrentSect
       /\ CurrentFile \in Range(rs.try_to_send_by_sections[s])
       /\ CurrentFile \notin Range(rs.did_sent_by_sections[s])

\* C5: a failed upload of a file at an earlier section does not prevent its
\* upload at the last section: when the transport does nothing wrong during
\* that later upload, it succeeds.
C5_LaterUploadSucceeds ==
    [][ (rs.pc = "upload" /\ up.pc = "done" /\ AtLastSection /\ FailedEarlier
         /\ ~aud.fault) => (up.result /\ ~up.raised) ]_vars

\* C5 (amended): a file whose upload failed at a section is not uploaded
\* successfully at any later section of the same run, and the finally clause
\* reports it as the shortfall of every section where its upload failed.
C5_FailureIsFinal ==
    [][ /\ \A s, t \in DOMAIN rs.did_sent_by_sections' :
              s < t => Range(rs.did_sent_by_sections'[t])
                          \subseteq Range(rs.did_sent_by_sections'[s])
        /\ rs.pc = "finally" =>
              \A s \in DOMAIN rs.try_to_send_by_sections :
                 \A f \in Range(rs.try_to_send_by_sections[s]) :
                    f \notin Range(rs.did_sent_by_sections[s]) =>
                       /\ s \in DOMAIN ended'[rs.forward_dir].missing
                       /\ f \in Range(ended'[rs.forward_dir].missing[s])
      ]_vars

\* with two sections, a file failed at the first, was quarantined, failed
\* at the second as well, and the finally clause reported it for both
C5_Witness ==
    /\ Len(conf.dirs[1].sections) = 2
    /\ ended[1].how = "normal"
    /\ \E f \in Range(ended[1].files) :
          /\ DOMAIN ended[1].missing = {1, 2}
          /\ f \in Range(ended[1].missing[1])
          /\ f \in Range(ended[1].missing[2])
          /\ Quarantined(ContentOf(f))
          /\ ~Archived(ContentOf(f)) /\ ~Removed(ContentOf(f))

(***************************************************************************)
(* Properties of the scan (get_file_list), checked under SpecRun.          *)
(***************************************************************************)
\* the file fails the validation: no CustomerName node, or a customer that
\* the sections do not list
FailsValidation(file) ==
    conf.meta[file].cust = "nonode" \/ conf.meta[file].cust \notin customers

\* run_on_subfolder is about to scan a directory that has a configuration
Scanning == rs.pc = "subfolder" /\ conf.dirs[rs.forward_dir].config

\* C12: with the validation on, the scan of a directory that holds a file
\* failing the validation does not abort the run of the directory, leaves
\* that file where it is and out of the candidate list, and puts the files
\* that are old enough and pass the validation on the list.
C12_ValidationSkips ==
    [][ (Scanning /\ ~conf.no_validate_customer
         /\ \E f \in forward_list(rs.forward_dir) : FailsValidation(f))
        => /\ ended'[rs.forward_dir].how # "aborted"
           /\ local' = local
           /\ Range(rs'.dat_file_list) =
                 { f \in forward_list(rs.forward_dir) :
                      /\ conf.meta[f].age >= conf.transfer_delay
                      /\ ~FailsValidation(f) }
      ]_vars

\* C13: validate_transfer_info, called by the scan on a file, returns true
\* when the customer of the file is one that the sections list and false
\* when it is not, and raises TdsRelayUnmetSpecError when the file has no
\* CustomerName node.
C13_Validate ==
    [][ (Scanning /\ ~conf.no_validate_customer)
        => \A f \in forward_list(rs.forward_dir) :
              conf.meta[f].age >= conf.transfer_delay =>
                 validate_transfer_info(f, rs.forward_dir) =
                    IF conf.meta[f].cust = "nonode" THEN "TdsRelayUnmetSpecError"
                    ELSE IF conf.meta[f].cust \in customers THEN "True"
                    ELSE "False"
      ]_vars

(***************************************************************************)
(* The scan over a staging directory that holds other files than .dat      *)
(* files: a run with one section and the validation off.                   *)
(***************************************************************************)
A_TXT == <<"a", ".", "t", "x", "t">>

ScanNames == { A_DAT, A1_DAT, A_TXT, A_DAT \o TmpSuffix }

InitScan ==
    /\ NameIdle
    /\ LockIdle
    /\ posix \in BOOLEAN
    /\ overwrite = TRUE
    /\ writes = 0
    /\ up = IdleFrame
    /\ aud = IdleAudit
    /\ \E present \in (SUBSET ScanNames) \ {{}} :
          /\ local = [p \in { Path(1, "", n) : n \in present } |-> ContentOf(p)]
          /\ \E mode \in {"FTP", "SFTP"}, all_pass \in BOOLEAN :
             \E age \in [{ Path(1, "", f) : f \in present } ->
                           {TransferDelay - 1, TransferDelay}] :
                conf = [all_pass |-> all_pass,
                        no_validate_customer |-> TRUE,
                        backup_when_succeed |-> TRUE,
                        transfer_delay |-> TransferDelay,
                        dirs |-> Dirs(<<1>>),
                        mode |-> <<mode>>,
                        meta |-> [p \in DOMAIN age |->
                                    [age |-> age[p], cust |-> "acme"]]]
    /\ remote = <<EmptyMap>>
    /\ rs = NewRun
    /\ conns = <<>>
    /\ ended = [d \in 1..Len(conf.dirs) |-> NotEnded]
    /\ removed = {}

SpecScan == InitScan /\ [][NextRun]_vars

\* C14: with the validation off, the scan changes no file, puts a file on
\* the candidate list exactly when its age is at least transfer_delay and
\* its name passes the mode: in strict mode the name ends in .dat, in
\* permissive mode it has a dot and does not end in .tmp.
C14_Eligible ==
    [][ (Scanning /\ conf.no_validate_customer)
        => /\ local' = local
           /\ ended'[rs.forward_dir].how # "aborted"
           /\ Range(rs'.dat_file_list) =
                 { f \in StagingOf(rs.forward_dir) :
                      /\ conf.meta[f].age >= conf.transfer_delay
                      /\ IF conf.all_pass
                         THEN f \in GlobAny(rs.forward_dir)
                              /\ ~EndsWith(f[3], TmpSuffix)
                         ELSE EndsWith(f[3], DatSuffix) }
      ]_vars

\* in strict mode the scan has listed a.dat, whose age is exactly
\* transfer_delay, and has passed over a-1.dat, which is one second younger,
\* and over a.txt, which is old enough and still in the staging directory
C14_Witness ==
    /\ rs.pc = "section"
    /\ ~conf.all_pass
    /\ { Path(1, "", A_DAT), Path(1, "", A1_DAT), Path(1, "", A_TXT) }
          \subseteq DOMAIN conf.meta
    /\ conf.meta[Path(1, "", A_DAT)].age = conf.transfer_delay
    /\ conf.meta[Path(1, "", A1_DAT)].age = conf.transfer_delay - 1
    /\ conf.meta[Path(1, "", A_TXT)].age >= conf.transfer_delay
    /\ rs.dat_file_list = <<Path(1, "", A_DAT)>>
    /\ Path(1, "", A_TXT) \in DOMAIN local
    /\ Path(1, "", A1_DAT) \in DOMAIN local

(***************************************************************************)
(* Properties of the loops of run_on_subfolder, checked under SpecRun.     *)
(***************************************************************************)
\* ftp_upload has returned false to the loop body
UploadReturnedFalse ==
    rs.pc = "upload" /\ up.pc = "done" /\ ~up.result /\ ~up.raised

\* C15: whenever ftp_upload returns false for a candidate, the step that
\* follows leaves the file under "quarantined" and no longer in the staging
\* directory, and the loop goes on to the next candidate: no error leaves
\* the loop over the files.
C15_FalseQuarantines ==
    [][ UploadReturnedFalse
        => /\ rs'.pc = "file"
           /\ CurrentFile \notin DOMAIN local'
           /\ Path(rs.forward_dir, QUARANTINE, CurrentFile[3]) \in DOMAIN local'
      ]_vars

\* C16: once ftp_open has failed for a section, no file is tried at that
\* section, no later section is started, the run of the directory ends as
\* aborted, and run has dealt with every sub-directory when it ends.
C16_OpenFailureAborts ==
    \A c \in 1..Len(conns) :
       conns[c].state = "failed" =>
          /\ c = Len(conns)
          /\ up.pc = "idle"
          /\ \A s \in DOMAIN rs.try_to_send_by_sections : s < conns[c].sect
          /\ rs.pc = "finally" \/ ended[1].how = "aborted"
          /\ rs.pc = "end" => \A d \in DOMAIN ended : ended[d].how # "none"

\* ftp_open failed at the second of two sections after files had been tried
\* at the first; the directory ended as aborted and run went on to the end
C16_Witness ==
    /\ rs.pc = "end"
    /\ Len(conns) = 2
    /\ conns[1].state = "open"
    /\ conns[2].state = "failed"
    /\ ended[1].how = "aborted"
    /\ Len(ended[1].files) = 2
    /\ ended[2].how = "skipped"
    /\ ended[3].how = "noconfig"

(***************************************************************************)
(* Properties of run, checked under SpecRun.                               *)
(***************************************************************************)
\* C17: when run has ended, run_on_subfolder has been called exactly once
\* for every sub-directory whose name does not end with "quarantined" and
\* never for one whose name does, also after a sub-directory whose run
\* raised an error.
C17_EachOnce ==
    rs.pc = "end" =>
       \A d \in DOMAIN ended :
          ended[d].calls =
             IF EndsWith(conf.dirs[d].name, QUARANTINE_Chars) THEN 0 ELSE 1

\* C18: for a directory without a configuration file run_on_subfolder
\* returns without an error, with an empty candidate list, with no transport
\* opened and no file of the directory moved, removed or quarantined; and no
\* other step touches the files of such a directory.
C18_NoConfigNoWork ==
    [][ /\ (rs.pc = "subfolder" /\ ~conf.dirs[rs.forward_dir].config)
           => /\ rs'.pc = "loop"
              /\ rs'.dat_file_list = <<>>
              /\ ended'[rs.forward_dir].how = "noconfig"
              /\ ended'[rs.forward_dir].exc = None
              /\ <<local, remote, conns, removed>>' = <<local, remote, conns, removed>>
        /\ \A p \in DOMAIN local :
              ~conf.dirs[p[1]].config => p \in DOMAIN local' /\ local'[p] = local[p]
        /\ \A c \in 1..Len(conns') : conf.dirs[conns'[c].dir].config
      ]_vars

\* run has ended; the staging directory was run normally with a transport
\* opened, and the directory without a configuration file still holds its
\* file
C18_Witness ==
    /\ rs.pc = "end"
    /\ ended[1].how = "normal"
    /\ Len(conns) >= 1
    /\ ended[3].how = "noconfig"
    /\ ended[3].calls = 1
    /\ ended[3].files = <<>>
    /\ OtherFile \in DOMAIN local
    /\ local[OtherFile] = ContentOf(OtherFile)

\* C19: nothing is retried within a run: ftp_upload is never called for a
\* file that this run has quarantined after a failed upload.
C19_NoRetry ==
    [][ (rs.pc = "file" /\ rs'.pc = "upload")
        => CurrentFile \notin Range(rs.quarantine_files) ]_vars

\* the transport objects whose ftp_open succeeded and on which ftp_close has
\* not been called
OpenTransports == { c \in 1..Len(conns) : conns[c].state = "open" }

\* C20: at most one transport is open at any time, and when the run of a
\* directory has ended, ftp_close has been called on every transport that
\* the run opened.
C20_AllClosed ==
    /\ Cardinality(OpenTransports) <= 1
    /\ \A c \in OpenTransports : ended[conns[c].dir].how \notin {"normal", "aborted"}

(***************************************************************************)
(* Further properties of ftp_upload, checked under SpecUpload.             *)
(***************************************************************************)
\* the entries of the destination that this call's stores produced: the
\* file's content, or the piece a broken transfer left
Uploaded == { n \in Listing : remote[up.sect][n].src \in {"local", "partial"} }

\* C21: the canonical name becomes visible remotely only through the
\* server-side rename that follows a completed store: what the call wrote is
\* found under a name other than a temporary one only if the store completed
\* and the rename was done, and then under the resolved name with the file's
\* content; after a successful upload neither temporary name exists remotely.
C21_OnlyByRename ==
    /\ \A n \in Uploaded :
          ~EndsWith(n, TmpSuffix) =>
             /\ aud.stored /\ up.result
             /\ n = up.bfn
             /\ remote[up.sect][n] = ContentOf(up.file)
    /\ (Returned /\ up.result) =>
          /\ up.tmp \notin Listing
          /\ (up.file[3] \o TmpSuffix) \notin Listing

\* C21 witness: a call that found a leftover temporary entry and a taken
\* name has succeeded; the file is under the resolved name
C21_Witness ==
    /\ Returned /\ up.result
    /\ up.bfn # up.file[3]
    /\ (up.file[3] \o TmpSuffix) \in DOMAIN aud.before
    /\ up.bfn \in Listing
    /\ remote[up.sect][up.bfn] = ContentOf(up.file)

(***************************************************************************)
(* Further properties of run_on_subfolder, checked under SpecRun.          *)
(***************************************************************************)
\* run_on_subfolder is between the scan and the end of its finally clause
Processing == rs.pc \in {"section", "file", "upload", "finally"}

\* li1 is the start of li2
IsPrefix(li1, li2) == Len(li1) <= Len(li2) /\ li1 = SubSeq(li2, 1, Len(li1))

\* C22: with the destinations in declaration order and the candidate list of
\* the scan, the upload attempts go through the whole list at one destination
\* before the next destination starts, in the order of the list, and the
\* candidate list stays what the scan computed.
C22_AttemptOrder ==
    Processing =>
       LET d == rs.forward_dir
           sections == conf.dirs[d].sections
           files == ended[d].files
           tried == rs.try_to_send_by_sections
           j == rs.section_run_count
       IN  /\ rs.dat_file_list = files
           /\ \A i \in 1..Len(sections) :
                 /\ i < j => (sections[i] \in DOMAIN tried /\ tried[sections[i]] = files)
                 /\ (i = j /\ sections[i] \in DOMAIN tried)
                       => IsPrefix(tried[sections[i]], files)
                 /\ i > j => sections[i] \notin DOMAIN tried
           /\ rs.pc = "upload" =>
                 /\ up.sect = sections[j]
                 /\ tried[sections[j]] # <<>>
                 /\ up.file = tried[sections[j]][Len(tried[sections[j]])]

\* C22 witness: two candidates have been tried at each of two destinations
C22_Witness ==
    /\ rs.pc = "finally" /\ rs.exc = None
    /\ Len(ended[1].files) = 2
    /\ Len(conf.dirs[1].sections) = 2
    /\ \A sect \in {1, 2} :
          /\ sect \in DOMAIN rs.try_to_send_by_sections
          /\ rs.try_to_send_by_sections[sect] = ended[1].files

\* the files tried at a destination and those sent to it, in the order of the
\* attempts; none for a destination that was not started
Attempted(sect) ==
    IF sect \in DOMAIN rs.try_to_send_by_sections
    THEN rs.try_to_send_by_sections[sect] ELSE <<>>

Sent(sect) ==
    IF sect \in DOMAIN rs.did_sent_by_sections
    THEN rs.did_sent_by_sections[sect] ELSE <<>>

\* C23: the finally clause of run_on_subfolder completes without an error of
\* its own, and whenever fewer uploads succeeded than destinations times
\* candidates it reports for every configured destination the files tried
\* there whose upload did not succeed, in the order of the attempts.
C23_Reconciled ==
    [][ rs.pc = "finally" =>
           LET d == rs.forward_dir
               sections == conf.dirs[d].sections
           IN  /\ ended'[d].exc # "KeyError"
               /\ (rs.sections_cnt * Len(rs.dat_file_list) # rs.cnt_fwd) =>
                     /\ DOMAIN ended'[d].missing = Range(sections)
                     /\ \A sect \in Range(sections) :
                           ended'[d].missing[sect] =
                              SelectSeq(Attempted(sect),
                                        LAMBDA f : f \notin Range(Sent(sect)))
      ]_vars

(***************************************************************************)
(* Properties of the temporary entry and of the two variants, checked      *)
(* under SpecUpload.                                                       *)
(***************************************************************************)
\* C24: when ftp_upload is about to store, the destination holds no entry
\* from before the call under the temporary name that the store writes to.
C24_NoLeftoverAtStore ==
    up.pc = "store" =>
        (up.tmp \in Listing => remote[up.sect][up.tmp].src # "old")

\* C27: when ftp_upload returns, every other local file that was there at the
\* call is still there under its name with its content.
C27_OthersUntouched ==
    Returned =>
        \A p \in DOMAIN aud.had :
           p # up.file => (p \in DOMAIN local /\ local[p] = aud.had[p])

(***************************************************************************)
(* The two variants side by side: copy 1 of the staging directory and of   *)
(* the destination is served by RelayFtp, copy 2 by RelaySftp; each copy   *)
(* goes through ftp_open, one ftp_upload of the same file and ftp_close.   *)
(***************************************************************************)
PairMode == <<"FTP", "SFTP">>

\* the record of a copy on which nothing has been called yet
NotCalled ==
    [how |-> "none", exc |-> None, result |-> FALSE, raised |-> FALSE,
     at |-> "none", partial |-> FALSE]

InitPair ==
    /\ NameIdle
    /\ LockIdle
    /\ posix \in BOOLEAN
    /\ overwrite \in BOOLEAN
    /\ writes = 0
    /\ up = IdleFrame
    /\ aud = IdleAudit
    /\ \E present \in SUBSET LocalNames, entries \in SUBSET RemoteNames :
       \E n \in present :
          /\ local = [p \in { Path(k, "", f) : k \in {1, 2}, f \in present } |->
                         ContentOf(p)]
          /\ remote = [k \in {1, 2} |-> [f \in entries |-> Foreign("old", f)]]
          /\ conf = [file |-> n]
    /\ rs = [pc |-> "idle"]
    /\ conns = [k \in {1, 2} |->
                  [dir |-> k, sect |-> k, mode |-> PairMode[k], state |-> "new"]]
    /\ ended = [k \in {1, 2} |-> NotCalled]
    /\ removed = {}

\* ftp_open on copy k, and on success the call of ftp_upload
Pair_Open(k) ==
    /\ ended[k].how = "none"
    /\ k = 1 \/ ended[1].how \in {"failed", "closed"}
    /\ \E ok \in BOOLEAN :
          /\ conns' = [conns EXCEPT ![k].state = IF ok THEN "open" ELSE "failed"]
          /\ ended' = [ended EXCEPT
                          ![k].how = IF ok THEN "opened" ELSE "failed",
                          ![k].exc = IF ok THEN None ELSE ftp_open_error(PairMode[k])]
          /\ up' = IF ok THEN NewFrame(PairMode[k], k, Path(k, "", conf.file))
                   ELSE up
          /\ aud' = IF ok THEN NewAudit(remote[k]) ELSE aud
    /\ UNCHANGED <<conf, rs, removed, local, remote>>

\* a step of the running ftp_upload
Pair_Upload ==
    /\ up.pc \notin {"idle", "done"}
    /\ (RelayFtp_ftp_upload \/ RelaySftp_ftp_upload)
    /\ UNCHANGED runVars

\* ftp_upload is over: what it returned and where the transport failed
Pair_Return ==
    /\ up.pc = "done"
    /\ ended' = [ended EXCEPT ![up.sect] =
                    [how |-> "returned", exc |-> None, result |-> up.result,
                     raised |-> up.raised, at |-> aud.at, partial |-> aud.partial]]
    /\ up' = IdleFrame
    /\ aud' = IdleAudit
    /\ UNCHANGED <<conf, rs, conns, removed, local, remote>>

\* ftp_close on copy k
Pair_Close(k) ==
    /\ ended[k].how = "returned"
    /\ \E ok \in BOOLEAN :
          /\ conns' = [conns EXCEPT ![k].state = IF ok THEN "closed" ELSE "broken"]
          /\ ended' = [ended EXCEPT
                          ![k].how = "closed",
                          ![k].exc = IF ok THEN None ELSE ftp_close_error(PairMode[k])]
    /\ UNCHANGED <<conf, rs, removed, local, remote, up, aud>>

NextPair ==
    \/ (\E k \in {1, 2} : Pair_Open(k)
           /\ UNCHANGED <<nameVars, envVars, writes, lockVars>>)
    \/ (Pair_Upload /\ UNCHANGED <<nameVars, envVars, writes, lockVars>>)
    \/ (Pair_Return /\ UNCHANGED <<nameVars, envVars, writes, lockVars>>)
    \/ (\E k \in {1, 2} : Pair_Close(k)
           /\ UNCHANGED <<nameVars, envVars, writes, lockVars>>)

SpecPair == InitPair /\ [][NextPair]_vars

\* what copy k of the destination and of the staging directory holds,
\* without the number of the copy
Namespace(k) ==
    [n \in DOMAIN remote[k] |-> <<remote[k][n].src, remote[k][n].name>>]

LocalView(k) ==
    { <<p[2], p[3], local[p].name>> : p \in { q \in DOMAIN local : q[1] = k } }

\* ftp_upload has returned on both copies after the same failure of the
\* transport, or after none
SameFailurePoint ==
    /\ \A k \in {1, 2} : ended[k].how \in {"returned", "closed"}
    /\ ended[1].at = ended[2].at
    /\ ended[1].partial = ended[2].partial

\* the two ftp_upload calls gave the same result and left the same entries
\* and the same local files
SameUpload ==
    /\ ended[1].result = ended[2].result
    /\ ended[1].raised = ended[2].raised
    /\ Namespace(1) = Namespace(2)
    /\ LocalView(1) = LocalView(2)

\* C25: the two variants have the same semantics: for the same local file,
\* the same initial remote entries and the same failure point, the two
\* ftp_upload calls return the same value and leave the same remote entries
\* and the same local file names; and a failure of ftp_open or of ftp_close
\* reaches the caller as RelayTransmissionError in both variants.
C25_SameSemantics ==
    /\ SameFailurePoint => SameUpload
    /\ \A k \in {1, 2} :
          (conns[k].state \in {"failed", "broken"})
             => ended[k].exc = "RelayTransmissionError"

(***************************************************************************)
(* Termination of the collision loop.  ftp_upload is sequential code whose *)
(* remote operations return or raise, so the running call takes its next   *)
(* step; whether an operation fails is up to the transport and is not      *)
(* forced.  The other writer adds at most MaxWrites entries and then       *)
(* leaves the namespace alone.                                             *)
(***************************************************************************)
\* a step of the running ftp_upload call in which the transport does not fail
Call_Step ==
    /\ (RelayFtp_ftp_upload \/ RelaySftp_ftp_upload)
    /\ aud'.fault = aud.fault
    /\ UNCHANGED <<nameVars, envVars, writes, lockVars, runVars>>

\* where the running call is: its position and the name it has resolved so far
Progress == <<up.pc, up.true_file>>

SpecUploadFair == SpecUpload /\ WF_Progress(Call_Step)

\* ftp_upload is in its name-resolution loop
InLoop == up.pc = "loop"

\* C26: the collision loop terminates: once the remote namespace has stopped
\* changing, a call that is in the name-resolution loop leaves it, since
\* each name that incremental_file_name returns differs from the names
\* tried before it.
C26_LoopTerminates == InLoop ~> ~InLoop

\* C26 witness: the loop was left at the third name of the chain, after the
\* other writer had taken a name
C26_Witness ==
    /\ up.pc = "store"
    /\ up.file[3] = A_DAT
    /\ up.true_file = A2_DAT
    /\ writes >= 1

(***************************************************************************)
(* A run over two staging directories, each with its configuration file    *)
(* and a destination of its own: section 1 belongs to the first directory, *)
(* section 2 to the second.                                                *)
(***************************************************************************)
TwoDirs ==
    << [name |-> <<"d">>, config |-> TRUE, sections |-> <<1>>],
       [name |-> <<"e">>, config |-> TRUE, sections |-> <<2>>] >>

InitTwo ==
    /\ NameIdle
    /\ LockIdle
    /\ posix \in BOOLEAN
    /\ overwrite = TRUE
    /\ writes = 0
    /\ up = IdleFrame
    /\ aud = IdleAudit
    /\ \E first_dir \in (SUBSET LocalNames) \ {{}}, second_dir \in SUBSET {A_DAT},
          stale \in SUBSET {Path(1, QUARANTINE, A_DAT)} :
          /\ local = [p \in { Path(1, "", n) : n \in first_dir }
                               \cup { Path(2, "", n) : n \in second_dir }
                               \cup stale |->
                         IF p \in stale THEN Foreign("old", p[3]) ELSE ContentOf(p)]
          /\ \E mode \in [1..2 -> {"FTP", "SFTP"}],
                flags \in [no_validate_customer : BOOLEAN,
                           backup_when_succeed : BOOLEAN] :
                conf = [all_pass |-> FALSE,
                        no_validate_customer |-> flags.no_validate_customer,
                        backup_when_succeed |-> flags.backup_when_succeed,
                        transfer_delay |-> TransferDelay,
                        dirs |-> TwoDirs,
                        mode |-> mode,
                        meta |-> [p \in { q \in DOMAIN local : q[2] = "" } |->
                                    [age |-> TransferDelay, cust |-> "acme"]]]
    /\ \E taken \in SUBSET {A_DAT} :
          remote = [s \in 1..2 |-> [f \in taken |-> Foreign("old", f)]]
    /\ rs = NewRun
    /\ conns = <<>>
    /\ ended = [d \in 1..Len(conf.dirs) |-> NotEnded]
    /\ removed = {}

SpecTwo == InitTwo /\ [][NextRun]_vars

\* the destinations configured for directory d
SectionsOf(d) == Range(conf.dirs[d].sections)

\* C29: the state of one directory does not leak into the next: when the
\* processing of a directory starts the candidate list is empty, after the
\* scan it holds only files that lie in that directory, also after the run
\* of the directory before has aborted, and a file of one directory is only
\* uploaded to, and only arrives at, a destination configured for it.
C29_NoLeak ==
    /\ rs.pc = "subfolder" => rs.dat_file_list = <<>>
    /\ Processing =>
          \A f \in Range(rs.dat_file_list) : f[1] = rs.forward_dir /\ f[2] = ""
    /\ rs.pc = "upload" =>
          /\ up.file[1] = rs.forward_dir
          /\ up.sect \in SectionsOf(up.file[1])
    /\ \A s \in DOMAIN remote : \A n \in DOMAIN remote[s] :
          remote[s][n].src = "local" => s \in SectionsOf(remote[s][n].dir)

\* C29 witness: the run of the first directory has aborted with candidates in
\* its list, and a file of the second directory is being uploaded
C29_Witness ==
    /\ ended[1].how = "aborted"
    /\ ended[1].files # <<>>
    /\ rs.forward_dir = 2
    /\ rs.pc = "upload"
    /\ up.file = Path(2, "", A_DAT)

=============================================================================
